---------------------------- MODULE Spec2Model ----------------------------
(***************************************************************************)
(* DroQ_SAC._train (sbx/droq_sac/droq.py): one invocation of the training  *)
(* step orchestrator, modelled statement by statement, with the            *)
(* collaborators it calls (SAC.update_critic, SAC.soft_update,             *)
(* DroQ_SAC.update_actor, SAC.update_temperature) as operators over exact  *)
(* rationals with a float overflow threshold.  The networks are fixed      *)
(* deterministic stubs; the optimizer is a black box whose result is       *)
(* chosen from ParamVals.                                                  *)
(***************************************************************************)
EXTENDS Integers, Sequences, FiniteSets, TLC

\* ---------------------------------------------------------------- bounds
MaxGradSteps == 3
MaxBatch == 4
EnsembleSize == 2
FloatMax == 10000
Huge == 200

\* ------------------------------------------------------------ arithmetic
\* A float is <<n, d>> with d > 0 in lowest terms, or Inf (d = 0) for every
\* non-finite value (inf, -inf, nan); an operation on a non-finite operand,
\* or whose magnitude exceeds FloatMax, is non-finite.
Inf == <<1, 0>>
Abs(n) == IF n < 0 THEN -n ELSE n
RECURSIVE Gcd(_, _)
Gcd(a, b) == IF b = 0 THEN a ELSE Gcd(b, a % b)
Norm(n, d) ==
    IF d = 0 \/ Abs(n) > FloatMax * Abs(d) THEN Inf
    ELSE LET s == IF d < 0 THEN -1 ELSE 1
             g == Gcd(Abs(n), Abs(d))
         IN  <<(s * n) \div g, (s * d) \div g>>
R(n) == Norm(n, 1)
IsFinite(x) == x[2] # 0
RAdd(x, y) == IF IsFinite(x) /\ IsFinite(y) THEN Norm(x[1] * y[2] + y[1] * x[2], x[2] * y[2]) ELSE Inf
RNeg(x) == IF IsFinite(x) THEN <<-x[1], x[2]>> ELSE Inf
RSub(x, y) == RAdd(x, RNeg(y))
RMul(x, y) == IF IsFinite(x) /\ IsFinite(y) THEN Norm(x[1] * y[1], x[2] * y[2]) ELSE Inf
RDivInt(x, n) == IF IsFinite(x) THEN Norm(x[1], x[2] * n) ELSE Inf
RLess(x, y) == x[1] * y[2] < y[1] * x[2]
RMin2(x, y) == IF IsFinite(x) /\ IsFinite(y) THEN (IF RLess(y, x) THEN y ELSE x) ELSE Inf
RECURSIVE RSum(_)
RSum(s) == IF s = <<>> THEN R(0) ELSE RAdd(s[1], RSum(Tail(s)))
RECURSIVE RMinSeq(_)
RMinSeq(s) == IF Len(s) = 1 THEN s[1] ELSE RMin2(s[1], RMinSeq(Tail(s)))
\* jnp.mean over an axis: the sum divided by the length (nan when empty).
RMean(s) == RDivInt(RSum(s), Len(s))

\* ------------------------------------------------------------ random keys
\* jax.random.split(key, n): n fresh keys derived from key.
Split(key, n) == [j \in 1..n |-> Append(key, j)]
RECURSIVE KeySum(_)
KeySum(k) == IF k = <<>> THEN 0 ELSE k[1] + KeySum(Tail(k))
KeyBit(k) == KeySum(k) % 2

\* An array of n elements, evaluated once (a sequence, not a lazy function).
Array(f, n) == SubSeq(f, 1, n)

\* --------------------------------------------------------- stub networks
Members == 1..EnsembleSize
\* actor.apply(params, obs) -> dist; dist.sample(seed) and dist.log_prob, per row.
ActorSample(params, obs, seed) == Array([r \in 1..Len(obs) |-> (obs[r] + params + KeyBit(seed)) % 3], Len(obs))
ActorLogProb(params, obs, acts) == Array([r \in 1..Len(obs) |-> R(-(1 + ((acts[r] + obs[r] + params) % 2)))], Len(obs))
\* qf.apply(params, obs, actions, rngs={"dropout": key}): one row of values per member.
QfApply(p, obs, acts, dropout_key) ==
    Array([e \in Members |->
        Array([r \in 1..Len(obs) |->
            RAdd(RMul(RAdd(p, R(1)), R(e)), R(obs[r] * obs[r] + acts[r] + KeyBit(dropout_key)))], Len(obs))], EnsembleSize)
\* ent_coef.apply({"params": params}): the temperature, never negative.
EntCoefApply(params) == R(params)


\* ------------------------------------------------------------ train states
\* flax TrainState.apply_gradients: new params from the optimizer, step + 1.
ApplyGradients(state, newp) == [state EXCEPT !.params = newp, !.step = @ + 1]

\* ----------------------------------------------------------- update_actor
\* jnp.mean(qf_pi, axis=0): per row, the mean over the ensemble members.
EnsembleMean(qf_pi, n) == Array([r \in 1..n |-> RMean([e \in Members |-> qf_pi[e][r]])], n)
EnsembleMin(qf_pi, n) == Array([r \in 1..n |-> RMinSeq([e \in Members |-> qf_pi[e][r]])], n)

\* Faulty variant: the actor reduces the ensemble by the minimum, as SAC does.
ActorEnsembleReduceMin(qf_pi, n) == EnsembleMin(qf_pi, n)
ActorEnsembleReduce(qf_pi, n) == EnsembleMean(qf_pi, n)

\* The value and the aux output of the closure actor_loss.
ActorLoss(params, qf_state, ent_coef_state, observations, dropout_key, noise_key) ==
    LET n == Len(observations)
        actor_actions == ActorSample(params, observations, noise_key)
        log_prob == ActorLogProb(params, observations, actor_actions)
        qf_pi == QfApply(qf_state.params, observations, actor_actions, dropout_key)
        min_qf_pi == ActorEnsembleReduce(qf_pi, n)
        ent_coef_value == EntCoefApply(ent_coef_state.params)
    IN  [actor_loss |-> RMean([r \in 1..n |-> RSub(RMul(ent_coef_value, log_prob[r]), min_qf_pi[r])]),
         entropy |-> RNeg(RMean(log_prob))]

\* Faulty variant: the name key is not rebound, the split key is returned.
UpdateActorKeysNotRebound(key) == <<key, Split(key, 3)[2], Split(key, 3)[3]>>
\* key, dropout_key, noise_key = jax.random.split(key, 3)
UpdateActorKeys(key) == Split(key, 3)

\* Faulty variant: the actor update also refreshes the target critic.
UpdateActorSyncsTarget(actor_state, qf_state, ent_coef_state, observations, key, newp) ==
    LET ks == UpdateActorKeys(key)
        l == ActorLoss(actor_state.params, qf_state, ent_coef_state, observations, ks[2], ks[3])
    IN  [actor_state |-> ApplyGradients(actor_state, newp),
         qf_state |-> [qf_state EXCEPT !.target_params = qf_state.params],
         actor_loss_value |-> l.actor_loss,
         key |-> ks[1],
         entropy |-> l.entropy,
         dropout_key |-> ks[2],
         noise_key |-> ks[3]]

UpdateActor(actor_state, qf_state, ent_coef_state, observations, key, newp) ==
    LET ks == UpdateActorKeys(key)
        dropout_key == ks[2]
        noise_key == ks[3]
        l == ActorLoss(actor_state.params, qf_state, ent_coef_state, observations, dropout_key, noise_key)
    IN  [actor_state |-> ApplyGradients(actor_state, newp),
         qf_state |-> qf_state,
         actor_loss_value |-> l.actor_loss,
         key |-> ks[1],
         entropy |-> l.entropy,
         dropout_key |-> dropout_key,
         noise_key |-> noise_key]

\* ------------------------------------------------------ SAC collaborators
\* SAC.update_critic: TD regression of every member against the minimum of
\* the target ensemble, with dropout active in both evaluations.
UpdateCritic(gamma, actor_state, qf_state, ent_coef_state, observations, actions, next_observations, rewards, dones, key, newp) ==
    LET n == Len(observations)
        ks == Split(key, 4)
        noise_key == ks[2]
        dropout_key_target == ks[3]
        dropout_key_current == ks[4]
        next_actions == ActorSample(actor_state.params, next_observations, noise_key)
        next_log_prob == ActorLogProb(actor_state.params, next_observations, next_actions)
        qf_next == QfApply(qf_state.target_params, next_observations, next_actions, dropout_key_target)
        min_next == EnsembleMin(qf_next, n)
        ent_coef_value == EntCoefApply(ent_coef_state.params)
        target == Array([r \in 1..n |->
                     RAdd(R(rewards[r]),
                          RMul(RMul(R(1 - dones[r]), gamma),
                               RSub(min_next[r], RMul(ent_coef_value, next_log_prob[r]))))], n)
        current == QfApply(qf_state.params, observations, actions, dropout_key_current)
        sq(e, r) == LET d == RSub(target[r], current[e][r]) IN RMul(d, d)
    IN  [qf_state |-> ApplyGradients(qf_state, newp),
         qf_loss_value |-> RSum([e \in Members |-> RMean([r \in 1..n |-> sq(e, r)])]),
         ent_coef_value |-> ent_coef_value,
         key |-> ks[1],
         target |-> target,
         consumed |-> <<noise_key, dropout_key_target, dropout_key_current>>]

\* SAC.soft_update: target <- tau * online + (1 - tau) * target.
SoftUpdate(tau, qf_state) ==
    [qf_state EXCEPT !.target_params =
        RAdd(RMul(tau, qf_state.params), RMul(RSub(R(1), tau), qf_state.target_params))]

\* SAC.update_temperature: loss = temperature * (entropy - target_entropy).
UpdateTemperature(target_entropy, ent_coef_state, entropy, newp) ==
    [ent_coef_state |-> ApplyGradients(ent_coef_state, newp),
     ent_coef_loss |-> RMul(EntCoefApply(ent_coef_state.params), RSub(entropy, target_entropy))]


\* ------------------------------------------------------------------ _train
\* The inputs of one invocation.
GradStepVals == (-1)..MaxGradSteps
TauVals == {<<0, 1>>, <<1, 2>>, <<1, 1>>, <<3, 2>>}
GammaVals == {<<1, 2>>, <<1, 1>>}
ParamVals == {1, 2}
NUpdatesVals == {0, 5}
\* A batch of n rows; row `outlier` (0: none) carries a huge reward, whose
\* squared TD error overflows.
Batch(n, outlier) ==
    [observations |-> Array([r \in 1..n |-> r], n),
     actions |-> Array([r \in 1..n |-> (r + 1) % 3], n),
     next_observations |-> Array([r \in 1..n |-> r + 1], n),
     rewards |-> Array([r \in 1..n |-> IF r = outlier THEN Huge ELSE r % 2], n),
     dones |-> Array([r \in 1..n |-> (r \div 2) % 2], n)]
BatchSize(data) == Len(data.observations)

Unbound == <<0, -1>>
NoReturn == [returned |-> FALSE]

VARIABLES
    args,              \* the arguments of the invocation, as passed
    n_updates, qf_state, actor_state, ent_coef_state, key,
    i,                 \* the loop variable's next value
    slice_step,        \* the default bound to `step` by the last def slice; -1: slice unbound
    qf_loss_value, ent_coef_value, actor_loss_value, entropy,
    pc, error, ret,
    trace,             \* the collaborator calls, in order
    criticCalls, softCalls, actorCalls, tempCalls

locals == <<n_updates, qf_state, actor_state, ent_coef_state, key, i, slice_step, qf_loss_value, ent_coef_value, actor_loss_value, entropy>>
history == <<trace, criticCalls, softCalls, actorCalls, tempCalls>>
vars == <<args, locals, pc, error, ret, history>>

gradient_steps == args.gradient_steps
data == args.data

\* x[a : b] of a sequence, as Python slices it.
PySlice(x, a, b) == SubSeq(x, a + 1, IF b < Len(x) THEN b ELSE Len(x))
\* a % b of Python, b # 0: the result has the sign of b.
PyMod(a, b) == IF b > 0 THEN a % b ELSE -((-a) % (-b))
\* Faulty variant: slice without its assertion.
SliceErrorNoAssert(x) == IF gradient_steps = 0 THEN "ZeroDivisionError" ELSE "none"
\* What a call slice(x) raises: assert x.shape[0] % gradient_steps == 0.
SliceError(x) ==
    IF gradient_steps = 0 THEN "ZeroDivisionError"
    ELSE IF PyMod(Len(x), gradient_steps) # 0 THEN "AssertionError"
    ELSE "none"
\* Faulty variant: the slice bounds are not scaled by batch_size.
SliceUnscaled(x, step) == PySlice(x, step, step + (Len(x) \div gradient_steps))
\* slice(x, step): rows [batch_size * step, batch_size * (step + 1)).
Slice(x, step) ==
    LET batch_size == Len(x) \div gradient_steps
    IN  PySlice(x, batch_size * step, batch_size * (step + 1))

\* Faulty variant: one iteration too many.
RangeHasOneMore(k, n) == k <= n
\* i in range(n) has a next value.
RangeHas(k, n) == k < n

\* Faulty variant: the actor update takes the whole batch, without slicing.
ActorArgWholeBatch == [error |-> "none", observations |-> data.observations]
\* The argument slice(data.observations) of the update_actor call: the name
\* slice is the function the last iteration defined, with its default step.
ActorArg ==
    IF slice_step = -1 THEN [error |-> "UnboundLocalError", observations |-> <<>>]
    ELSE IF SliceError(data.observations) # "none" THEN [error |-> SliceError(data.observations), observations |-> <<>>]
    ELSE [error |-> "none", observations |-> Slice(data.observations, slice_step)]

Init ==
    /\ \E g \in GradStepVals, n \in 0..MaxBatch, t \in TauVals, gm \in GammaVals, n0 \in NUpdatesVals :
         \E o \in 0..n :
           args = [gradient_steps |-> g, tau |-> t, gamma |-> gm, target_entropy |-> R(-1),
                   data |-> Batch(n, o), n_updates |-> n0,
                   qf_state |-> [params |-> R(2), target_params |-> R(0), step |-> 0],
                   actor_state |-> [params |-> 1, step |-> 0],
                   ent_coef_state |-> [params |-> 1, step |-> 0],
                   key |-> <<0>>]
    /\ n_updates = args.n_updates
    /\ qf_state = args.qf_state
    /\ actor_state = args.actor_state
    /\ ent_coef_state = args.ent_coef_state
    /\ key = args.key
    /\ i = 0
    /\ slice_step = -1
    /\ qf_loss_value = Unbound
    /\ ent_coef_value = Unbound
    /\ actor_loss_value = Unbound
    /\ entropy = Unbound
    /\ pc = "for"
    /\ error = "none"
    /\ ret = NoReturn
    /\ trace = <<>>
    /\ criticCalls = <<>>
    /\ softCalls = <<>>
    /\ actorCalls = <<>>
    /\ tempCalls = <<>>

\* for i in range(gradient_steps): n_updates += 1; def slice(x, step=i)
ForNext ==
    /\ pc = "for"
    /\ RangeHas(i, gradient_steps)
    /\ n_updates' = n_updates + 1
    /\ slice_step' = i
    /\ pc' = "update_critic"
    /\ UNCHANGED <<args, qf_state, actor_state, ent_coef_state, key, i, qf_loss_value, ent_coef_value, actor_loss_value, entropy, error, ret, history>>

\* range(gradient_steps) is exhausted.
ForExit ==
    /\ pc = "for"
    /\ ~RangeHas(i, gradient_steps)
    /\ pc' = "update_actor"
    /\ UNCHANGED <<args, locals, error, ret, history>>

\* The first slice(...) argument of the call fails its assertion.
CriticSliceAssertFails ==
    /\ pc = "update_critic"
    /\ SliceError(data.observations) # "none"
    /\ pc' = "aborted"
    /\ error' = SliceError(data.observations)
    /\ UNCHANGED <<args, locals, ret, history>>

\* Faulty variant: every cycle starts from the critic state passed to _train.
CriticArgsStale ==
    [actor_state |-> actor_state, qf_state |-> args.qf_state, ent_coef_state |-> ent_coef_state,
     observations |-> Slice(data.observations, slice_step),
     actions |-> Slice(data.actions, slice_step),
     next_observations |-> Slice(data.next_observations, slice_step),
     rewards |-> Slice(data.rewards, slice_step),
     dones |-> Slice(data.dones, slice_step),
     key |-> key]
\* The arguments of the SAC.update_critic call.
CriticArgs ==
    [actor_state |-> actor_state, qf_state |-> qf_state, ent_coef_state |-> ent_coef_state,
     observations |-> Slice(data.observations, slice_step),
     actions |-> Slice(data.actions, slice_step),
     next_observations |-> Slice(data.next_observations, slice_step),
     rewards |-> Slice(data.rewards, slice_step),
     dones |-> Slice(data.dones, slice_step),
     key |-> key]

\* qf_state, (qf_loss_value, ent_coef_value), key = SAC.update_critic(...)
CriticCall ==
    /\ pc = "update_critic"
    /\ SliceError(data.observations) = "none"
    /\ \E newp \in ParamVals :
         LET call == CriticArgs
             out == UpdateCritic(args.gamma, call.actor_state, call.qf_state, call.ent_coef_state, call.observations, call.actions, call.next_observations, call.rewards, call.dones, call.key, R(newp))
         IN  /\ qf_state' = out.qf_state
             /\ qf_loss_value' = out.qf_loss_value
             /\ ent_coef_value' = out.ent_coef_value
             /\ key' = out.key
             /\ criticCalls' = Append(criticCalls, [in |-> call, out |-> out])
    /\ trace' = Append(trace, "update_critic")
    /\ pc' = "soft_update"
    /\ UNCHANGED <<args, n_updates, actor_state, ent_coef_state, i, slice_step, actor_loss_value, entropy, error, ret, softCalls, actorCalls, tempCalls>>

\* Faulty variant: the result of SAC.soft_update is not assigned.
SoftUpdateCallDiscarded ==
    /\ pc = "soft_update"
    /\ softCalls' = Append(softCalls, [in |-> qf_state, out |-> qf_state])
    /\ trace' = Append(trace, "soft_update")
    /\ i' = i + 1
    /\ pc' = "for"
    /\ UNCHANGED <<args, n_updates, qf_state, actor_state, ent_coef_state, key, slice_step, qf_loss_value, ent_coef_value, actor_loss_value, entropy, error, ret, criticCalls, actorCalls, tempCalls>>

\* qf_state = SAC.soft_update(tau, qf_state), then the next iteration.
SoftUpdateCall ==
    /\ pc = "soft_update"
    /\ qf_state' = SoftUpdate(args.tau, qf_state)
    /\ softCalls' = Append(softCalls, [in |-> qf_state, out |-> qf_state'])
    /\ trace' = Append(trace, "soft_update")
    /\ i' = i + 1
    /\ pc' = "for"
    /\ UNCHANGED <<args, n_updates, actor_state, ent_coef_state, key, slice_step, qf_loss_value, ent_coef_value, actor_loss_value, entropy, error, ret, criticCalls, actorCalls, tempCalls>>

\* The loop never ran: the name slice is unbound at the call's argument.
ActorSliceUnbound ==
    /\ pc = "update_actor"
    /\ ActorArg.error # "none"
    /\ pc' = "aborted"
    /\ error' = ActorArg.error
    /\ UNCHANGED <<args, locals, ret, history>>

\* actor_state, qf_state, actor_loss_value, key, entropy = DroQ_SAC.update_actor(...)
ActorCall ==
    /\ pc = "update_actor"
    /\ ActorArg.error = "none"
    /\ \E newp \in ParamVals :
         LET call == [actor_state |-> actor_state, qf_state |-> qf_state, ent_coef_state |-> ent_coef_state,
                      observations |-> ActorArg.observations, key |-> key]
             out == UpdateActor(call.actor_state, call.qf_state, call.ent_coef_state, call.observations, call.key, newp)
         IN  /\ actor_state' = out.actor_state
             /\ qf_state' = out.qf_state
             /\ actor_loss_value' = out.actor_loss_value
             /\ key' = out.key
             /\ entropy' = out.entropy
             /\ actorCalls' = Append(actorCalls, [in |-> call, out |-> out])
    /\ trace' = Append(trace, "update_actor")
    /\ pc' = "update_temperature"
    /\ UNCHANGED <<args, n_updates, ent_coef_state, i, slice_step, qf_loss_value, ent_coef_value, error, ret, criticCalls, softCalls, tempCalls>>

\* ent_coef_state, _ = SAC.update_temperature(ent_coef, target_entropy, ent_coef_state, entropy)
TemperatureCall ==
    /\ pc = "update_temperature"
    /\ \E newp \in ParamVals :
         LET call == [ent_coef_state |-> ent_coef_state, entropy |-> entropy]
             out == UpdateTemperature(args.target_entropy, call.ent_coef_state, call.entropy, newp)
         IN  /\ ent_coef_state' = out.ent_coef_state
             /\ tempCalls' = Append(tempCalls, [in |-> call, out |-> out])
    /\ trace' = Append(trace, "update_temperature")
    /\ pc' = "return"
    /\ UNCHANGED <<args, n_updates, qf_state, actor_state, key, i, slice_step, qf_loss_value, ent_coef_value, actor_loss_value, entropy, error, ret, criticCalls, softCalls, actorCalls>>

\* Faulty variant: the diagnostics carry the entropy in place of the actor loss.
ReturnEntropy ==
    /\ pc = "return"
    /\ ret' = [returned |-> TRUE, n_updates |-> n_updates, qf_state |-> qf_state, actor_state |-> actor_state,
               ent_coef_state |-> ent_coef_state, key |-> key,
               diagnostics |-> <<entropy, qf_loss_value, ent_coef_value>>]
    /\ pc' = "done"
    /\ UNCHANGED <<args, locals, error, history>>

\* return (n_updates, qf_state, actor_state, ent_coef_state, key, (actor_loss_value, qf_loss_value, ent_coef_value))
Return ==
    /\ pc = "return"
    /\ ret' = [returned |-> TRUE, n_updates |-> n_updates, qf_state |-> qf_state, actor_state |-> actor_state,
               ent_coef_state |-> ent_coef_state, key |-> key,
               diagnostics |-> <<actor_loss_value, qf_loss_value, ent_coef_value>>]
    /\ pc' = "done"
    /\ UNCHANGED <<args, locals, error, history>>

Next ==
    \/ ForNext
    \/ ForExit
    \/ CriticSliceAssertFails
    \/ CriticCall
    \/ SoftUpdateCall
    \/ ActorSliceUnbound
    \/ ActorCall
    \/ TemperatureCall
    \/ Return

Spec == Init /\ [][Next]_vars


\* ------------------------------------------------------------- properties
Fields == {"observations", "actions", "next_observations", "rewards", "dones"}
\* gradient_steps >= 1 and the batch size is a multiple of it.
Divisible == gradient_steps >= 1 /\ BatchSize(data) % gradient_steps = 0
MicroBatch == BatchSize(data) \div gradient_steps
Count(op) == Cardinality({j \in 1..Len(trace) : trace[j] = op})
Range(s) == {s[j] : j \in 1..Len(s)}
NoDup(s) == \A j, k \in 1..Len(s) : j # k => s[j] # s[k]
Aborted == pc = "aborted"
Done == pc = "done"
\* Nothing was applied and nothing is returned.
Untouched ==
    /\ trace = <<>>
    /\ ret = NoReturn
    /\ qf_state = args.qf_state
    /\ actor_state = args.actor_state
    /\ ent_coef_state = args.ent_coef_state
    /\ key = args.key

\* C1: for gradient_steps >= 1 and a batch size that is a multiple of it, one
\* invocation never aborts, and at its return has performed
\* exactly gradient_steps critic updates, gradient_steps soft updates, one
\* actor update and one temperature update, and returns n_updates plus
\* gradient_steps; no count is ever exceeded on the way.
C1_UpdateCounts ==
    Divisible =>
        /\ ~Aborted
        /\ pc \in {"for", "update_critic", "soft_update", "update_actor", "update_temperature", "return", "done"}
        /\ Count("update_critic") <= gradient_steps
        /\ Count("soft_update") <= Count("update_critic")
        /\ Count("update_actor") <= 1
        /\ Count("update_temperature") <= Count("update_actor")
        /\ Done =>
            /\ Count("update_critic") = gradient_steps
            /\ Count("soft_update") = gradient_steps
            /\ Count("update_actor") = 1
            /\ Count("update_temperature") = 1
            /\ Len(trace) = 2 * gradient_steps + 2
            /\ ret.n_updates = args.n_updates + gradient_steps
C1_Witness ==
    /\ Done
    /\ gradient_steps = MaxGradSteps
    /\ BatchSize(data) = MaxGradSteps
    /\ args.n_updates = 5
    /\ ret.n_updates = 5 + MaxGradSteps
    /\ Count("update_actor") = 1

RECURSIVE ConcatSlices(_, _)
ConcatSlices(j, f) == IF j = 0 THEN <<>> ELSE ConcatSlices(j - 1, f) \o criticCalls[j].in[f]

\* C2: critic cycle j (counted from 1) receives rows (j-1)*m+1 .. j*m of
\* every batch field, m = batch_size / gradient_steps, in the original
\* order; the micro-batches of a completed invocation concatenate to the
\* whole field; the actor update receives the observations of the last
\* micro-batch.
C2_MicroBatchSlices ==
    Divisible =>
        /\ \A j \in 1..Len(criticCalls) : \A f \in Fields :
            /\ Len(criticCalls[j].in[f]) = MicroBatch
            /\ \A r \in 1..MicroBatch : criticCalls[j].in[f][r] = data[f][(j - 1) * MicroBatch + r]
        /\ Len(criticCalls) = gradient_steps => \A f \in Fields : ConcatSlices(gradient_steps, f) = data[f]
        /\ \A j \in 1..Len(actorCalls) :
            /\ Len(actorCalls[j].in.observations) = MicroBatch
            /\ \A r \in 1..MicroBatch :
                 actorCalls[j].in.observations[r] = data.observations[(gradient_steps - 1) * MicroBatch + r]
C2_Witness ==
    /\ Done
    /\ gradient_steps = 2
    /\ BatchSize(data) = 4
    /\ criticCalls[1].in.observations = <<1, 2>>
    /\ criticCalls[2].in.observations = <<3, 4>>
    /\ actorCalls[1].in.observations = <<3, 4>>

RECURSIVE Cycles(_)
Cycles(n) == IF n <= 0 THEN <<>> ELSE Cycles(n - 1) \o <<"update_critic", "soft_update">>
Schedule == Cycles(gradient_steps) \o <<"update_actor", "update_temperature">>

\* C3: the calls happen in the order critic update, soft update (repeated
\* gradient_steps times), actor update, temperature update; each soft
\* update reads the state its critic update returned, each later critic
\* update reads the state the previous soft update returned, the actor
\* update reads the state the last soft update returned, and the
\* temperature update reads the entropy the actor update returned.
C3_StepOrder ==
    Divisible =>
        /\ Len(trace) <= Len(Schedule)
        /\ trace = SubSeq(Schedule, 1, Len(trace))
        /\ Done => trace = Schedule
        /\ \A j \in 1..Len(criticCalls) :
             criticCalls[j].in.qf_state = IF j = 1 THEN args.qf_state ELSE softCalls[j - 1].out
        /\ \A j \in 1..Len(softCalls) : softCalls[j].in = criticCalls[j].out.qf_state
        /\ \A j \in 1..Len(actorCalls) :
            /\ Len(softCalls) = gradient_steps
            /\ actorCalls[j].in.qf_state = softCalls[gradient_steps].out
            /\ \A k \in 1..(gradient_steps - 1) : actorCalls[j].in.qf_state # softCalls[k].out
        /\ \A j \in 1..Len(tempCalls) : tempCalls[j].in.entropy = actorCalls[1].out.entropy
C3_Witness ==
    /\ Done
    /\ gradient_steps = MaxGradSteps
    /\ trace = Schedule
    /\ actorCalls[1].in.qf_state = softCalls[MaxGradSteps].out
    /\ actorCalls[1].in.qf_state.target_params # args.qf_state.target_params

RECURSIVE CriticConsumed(_)
CriticConsumed(j) == IF j = 0 THEN <<>> ELSE CriticConsumed(j - 1) \o criticCalls[j].out.consumed
\* The keys handed to a stochastic consumer, and the keys that were split.
ConsumedKeys ==
    CriticConsumed(Len(criticCalls))
        \o (IF actorCalls = <<>> THEN <<>> ELSE <<actorCalls[1].out.dropout_key, actorCalls[1].out.noise_key>>)
SplitKeys ==
    [j \in 1..Len(criticCalls) |-> criticCalls[j].in.key]
        \o [j \in 1..Len(actorCalls) |-> actorCalls[j].in.key]

\* C4: no key is split twice; the first update receives the key passed in
\* and each later one the key its predecessor returned; the sub-keys handed
\* to the consumers (three per critic cycle, two in the actor update) are
\* pairwise different and none of them is split or returned; the key
\* returned to the caller is the one the actor update returned, was never
\* split nor consumed, and is not the key passed in.
C4_KeyLinearity ==
    Divisible =>
        /\ NoDup(SplitKeys)
        /\ NoDup(ConsumedKeys)
        /\ Len(ConsumedKeys) = 3 * Len(criticCalls) + 2 * Len(actorCalls)
        /\ Range(ConsumedKeys) \cap Range(SplitKeys) = {}
        /\ \A j \in 1..Len(criticCalls) :
             criticCalls[j].in.key = IF j = 1 THEN args.key ELSE criticCalls[j - 1].out.key
        /\ \A j \in 1..Len(actorCalls) : actorCalls[j].in.key = criticCalls[gradient_steps].out.key
        /\ key \notin Range(SplitKeys) \cup Range(ConsumedKeys)
        /\ Done =>
            /\ ret.key = actorCalls[1].out.key
            /\ ret.key \notin Range(SplitKeys) \cup Range(ConsumedKeys)
            /\ ret.key # args.key
C4_Witness ==
    /\ Done
    /\ gradient_steps = MaxGradSteps
    /\ Len(ConsumedKeys) = 3 * MaxGradSteps + 2
    /\ Len(SplitKeys) = MaxGradSteps + 1
    /\ ret.key # args.key

\* C5: the actor loss is the mean over the micro-batch of (temperature *
\* log_prob - mean over the members of Q), stated here cross-multiplied by
\* rows * members, and the entropy it returns is the mean of -log_prob; the
\* members' values differ on every row. Each finite TD target of a critic
\* update is built from a member that is minimal among the target ensemble.
C5_EnsembleReduction ==
    /\ \A j \in 1..Len(actorCalls) :
        LET c == actorCalls[j]
            obs == c.in.observations
            n == Len(obs)
            acts == ActorSample(c.in.actor_state.params, obs, c.out.noise_key)
            lp == ActorLogProb(c.in.actor_state.params, obs, acts)
            q == QfApply(c.in.qf_state.params, obs, acts, c.out.dropout_key)
            temp == EntCoefApply(c.in.ent_coef_state.params)
            row(r) == RSub(RMul(R(EnsembleSize), RMul(temp, lp[r])), RSum([e \in Members |-> q[e][r]]))
        IN  n > 0 =>
              /\ IsFinite(c.out.actor_loss_value)
              /\ RMul(c.out.actor_loss_value, R(n * EnsembleSize)) = RSum([r \in 1..n |-> row(r)])
              /\ RMul(c.out.entropy, R(n)) = RNeg(RSum(lp))
              /\ \A r \in 1..n : \A e1, e2 \in Members : e1 # e2 => q[e1][r] # q[e2][r]
    /\ \A j \in 1..Len(criticCalls) :
        LET c == criticCalls[j]
            nobs == c.in.next_observations
            n == Len(nobs)
            nacts == ActorSample(c.in.actor_state.params, nobs, c.out.consumed[1])
            nlp == ActorLogProb(c.in.actor_state.params, nobs, nacts)
            qn == QfApply(c.in.qf_state.target_params, nobs, nacts, c.out.consumed[2])
            temp == EntCoefApply(c.in.ent_coef_state.params)
            from(e, r) == RAdd(R(c.in.rewards[r]),
                               RMul(RMul(R(1 - c.in.dones[r]), args.gamma),
                                    RSub(qn[e][r], RMul(temp, nlp[r]))))
        IN  \A r \in 1..n :
              IsFinite(c.out.target[r]) =>
                \E e \in Members :
                    /\ \A e2 \in Members : ~RLess(qn[e2][r], qn[e][r])
                    /\ c.out.target[r] = from(e, r)
C5_Witness ==
    /\ Done
    /\ Len(actorCalls[1].in.observations) = 2
    /\ IsFinite(actorCalls[1].out.actor_loss_value)
    /\ IsFinite(actorCalls[1].out.entropy)
    /\ \E r \in 1..Len(criticCalls[1].out.target) :
         IsFinite(criticCalls[1].out.target[r]) /\ criticCalls[1].in.dones[r] = 0

\* C6: with tau = 0 the target parameters stay those passed in, through
\* every cycle and in the returned state; with tau = 1 every soft update
\* leaves the target equal to the online parameters, and so does the
\* returned state.
C6_SoftUpdateBoundary ==
    Divisible =>
        /\ args.tau = R(0) =>
            /\ qf_state.target_params = args.qf_state.target_params
            /\ \A j \in 1..Len(softCalls) : softCalls[j].out.target_params = args.qf_state.target_params
            /\ Done => ret.qf_state.target_params = args.qf_state.target_params
        /\ args.tau = R(1) =>
            /\ \A j \in 1..Len(softCalls) : softCalls[j].out.target_params = softCalls[j].out.params
            /\ Done => ret.qf_state.target_params = ret.qf_state.params
C6_Witness ==
    /\ Done
    /\ args.tau = R(0)
    /\ gradient_steps = MaxGradSteps
    /\ ret.qf_state.params # args.qf_state.params
    /\ ret.qf_state.target_params = args.qf_state.target_params
    /\ ret.qf_state.target_params # ret.qf_state.params

NonDivisible == gradient_steps >= 1 /\ BatchSize(data) % gradient_steps # 0

\* C7: when gradient_steps >= 1 does not divide the batch size, no update is
\* ever called, no state changes, nothing is returned, and the invocation
\* aborts with the assertion of slice at the first call's arguments.
C7_NonDivisibleAborts ==
    NonDivisible =>
        /\ Untouched
        /\ pc \in {"for", "update_critic", "aborted"}
        /\ Aborted => error = "AssertionError"
        /\ ~Aborted => error = "none"
C7_Witness ==
    /\ NonDivisible
    /\ Aborted
    /\ error = "AssertionError"
    /\ Untouched
    /\ BatchSize(data) > gradient_steps

ValidTau == RLess(R(0), args.tau) /\ ~RLess(R(1), args.tau)
ValidGamma == RLess(R(0), args.gamma) /\ RLess(args.gamma, R(1))
InvalidHyperparameter == ~ValidTau \/ ~ValidGamma \/ gradient_steps < 1

\* C8 as claimed, on non-empty batches: with tau outside (0,1], gamma outside
\* (0,1) or gradient_steps < 1, no update is applied and nothing is returned.
C8_InvalidHyperparameterAborts == (InvalidHyperparameter /\ BatchSize(data) > 0) => Untouched

\* C8 as amended: with gradient_steps < 1 no update is called, no state
\* changes, nothing is returned, and the invocation aborts where the actor
\* update's argument names the unbound slice; tau and gamma are not checked:
\* whatever their values, an invocation with gradient_steps >= 1 dividing
\* the batch size does not abort.
C8_OnlyGradientStepsAborts ==
    /\ gradient_steps < 1 =>
        /\ Untouched
        /\ pc \in {"for", "update_actor", "aborted"}
        /\ Aborted => error = "UnboundLocalError"
        /\ ~Aborted => error = "none"
    /\ Divisible => ~Aborted /\ error = "none"
C8_Witness ==
    /\ gradient_steps < 1
    /\ Aborted
    /\ error = "UnboundLocalError"
    /\ Untouched
    /\ BatchSize(data) > 0

\* A loss computed during the invocation is non-finite.
SomeLossNonFinite ==
    \/ \E j \in 1..Len(criticCalls) : ~IsFinite(criticCalls[j].out.qf_loss_value)
    \/ \E j \in 1..Len(actorCalls) : ~IsFinite(actorCalls[j].out.actor_loss_value)
    \/ \E j \in 1..Len(tempCalls) : ~IsFinite(tempCalls[j].out.ent_coef_loss)
DiagnosticsNonFinite == \E k \in 1..3 : ~IsFinite(ret.diagnostics[k])

\* C9 as claimed, under valid hyperparameters: when any loss computed during
\* the invocation is non-finite, the returned diagnostics expose a
\* non-finite value.
C9_AnyNonFiniteLossExposed ==
    (Done /\ ValidTau /\ ValidGamma /\ SomeLossNonFinite) => DiagnosticsNonFinite

\* C9 as amended: a non-finite loss never aborts the invocation, and the
\* returned diagnostics are the actor loss, the critic loss of the last
\* cycle and the temperature value that cycle used, unaltered: a non-finite
\* actor loss or last-cycle critic loss is exposed, the critic losses of
\* earlier cycles and the temperature loss are not returned.
C9_LastLossesExposed ==
    Divisible =>
        /\ ~Aborted
        /\ Done =>
            /\ ret.diagnostics = <<actorCalls[1].out.actor_loss_value,
                                   criticCalls[gradient_steps].out.qf_loss_value,
                                   criticCalls[gradient_steps].out.ent_coef_value>>
            /\ ~IsFinite(actorCalls[1].out.actor_loss_value) => ~IsFinite(ret.diagnostics[1])
            /\ ~IsFinite(criticCalls[gradient_steps].out.qf_loss_value) => ~IsFinite(ret.diagnostics[2])
C9_Witness ==
    /\ Done
    /\ gradient_steps >= 2
    /\ BatchSize(data) > 0
    /\ IsFinite(criticCalls[1].out.qf_loss_value)
    /\ ~IsFinite(criticCalls[gradient_steps].out.qf_loss_value)
    /\ ~IsFinite(ret.diagnostics[2])
    /\ IsFinite(ret.diagnostics[1])

\* C10: every critic update receives the actor and entropy-coefficient
\* states as passed to the invocation and leaves the target parameters as
\* they were; every soft update leaves the online parameters and the step as
\* they were; the actor update receives the entropy-coefficient state as
\* passed in and returns the critic state it was given; until the actor
\* update the actor state, and until the temperature update the
\* entropy-coefficient state, are those passed in; after them the critic
\* state, the actor state and the key are those the actor update returned;
\* n_updates grows by one per cycle and by nothing else.
C10_Frames ==
    Divisible =>
        /\ \A j \in 1..Len(criticCalls) :
            /\ criticCalls[j].in.actor_state = args.actor_state
            /\ criticCalls[j].in.ent_coef_state = args.ent_coef_state
            /\ criticCalls[j].out.qf_state.target_params = criticCalls[j].in.qf_state.target_params
        /\ \A j \in 1..Len(softCalls) :
            /\ softCalls[j].out.params = softCalls[j].in.params
            /\ softCalls[j].out.step = softCalls[j].in.step
        /\ \A j \in 1..Len(actorCalls) :
            /\ actorCalls[j].in.actor_state = args.actor_state
            /\ actorCalls[j].in.ent_coef_state = args.ent_coef_state
            /\ actorCalls[j].out.qf_state = actorCalls[j].in.qf_state
        /\ actorCalls = <<>> => actor_state = args.actor_state
        /\ tempCalls = <<>> => ent_coef_state = args.ent_coef_state
        /\ actorCalls # <<>> =>
            /\ qf_state = softCalls[gradient_steps].out
            /\ actor_state = actorCalls[1].out.actor_state
            /\ key = actorCalls[1].out.key
        /\ tempCalls # <<>> => ent_coef_state = tempCalls[1].out.ent_coef_state
        /\ n_updates = args.n_updates + Count("update_critic") + (IF pc = "update_critic" THEN 1 ELSE 0)
        /\ Done =>
            /\ ret.qf_state = softCalls[gradient_steps].out
            /\ ret.actor_state = actorCalls[1].out.actor_state
            /\ ret.ent_coef_state = tempCalls[1].out.ent_coef_state
C10_Witness ==
    /\ Done
    /\ gradient_steps >= 2
    /\ ret.qf_state = actorCalls[1].in.qf_state
    /\ ret.actor_state # args.actor_state
    /\ ret.ent_coef_state # args.ent_coef_state
    /\ criticCalls[gradient_steps].in.actor_state = args.actor_state
    /\ actorCalls[1].in.ent_coef_state = args.ent_coef_state

=============================================================================
